---- MODULE Spec2Model ----
(***************************************************************************)
(* A model of the PulseVest analysis backend (src/app.py).                 *)
(*                                                                         *)
(* Two specifications live here.                                           *)
(*   Spec      the /analyze endpoint: the requests served by one event     *)
(*             loop, the temporary file of each request, the upload /      *)
(*             poll / generate / delete conversation with the remote       *)
(*             service, and the exception handling of analyze_media.       *)
(*   NormSpec  the response translator translate_response_for_frontend     *)
(*             applied to a bounded set of parsed replies.                 *)
(*                                                                         *)
(* JSON values are tagged records [t, v]:                                  *)
(*   null  [t |-> "null", v |-> 0]                                         *)
(*   num   [t |-> "num",  v |-> n]   n counts tenths: 75.0 is 750          *)
(*   str   [t |-> "str",  v |-> s]                                         *)
(*   arr   [t |-> "arr",  v |-> <<values>>]                                *)
(*   obj   [t |-> "obj",  v |-> << <<key, value>>, ... >>]   keys unique,  *)
(*         in the order of the document (a Python dict keeps it).          *)
(* A key is a sequence of one-character strings, so that the string        *)
(* operations of the code (replace, title) are computed, not assumed.      *)
(***************************************************************************)
EXTENDS Integers, Sequences, FiniteSets, TLC

VARIABLES
    pc,          \* pc[r]: the position of request r in analyze_media
    running,     \* the request whose synchronous code holds the event loop, or NoReq
    req,         \* req[r]: the inputs of request r (second of arrival, filename, MIME type)
    fs,          \* fs[name]: the local file at path name
    linked,      \* linked[r]: the handle r opened still is the file at its path
    remote,      \* the requests whose uploaded remote file exists
    state,       \* state[r]: the last state.name r saw of its remote file
    reply,       \* reply[r]: what generate_content returned to r
    pending,     \* pending[r]: the exception in flight in r, or the value being returned
    outcome,     \* outcome[r]: what the caller of r received
    hist,        \* hist[r]: what r did so far (calls made, files touched)
    gemini_result,   \* NormSpec: the argument of translate_response_for_frontend
    final_response   \* NormSpec: its result

vars == <<pc, running, req, fs, linked, remote, state, reply, pending, outcome, hist,
          gemini_result, final_response>>

pipeVars == <<pc, running, req, fs, linked, remote, state, reply, pending, outcome, hist>>
normVars == <<gemini_result, final_response>>

(***************************************************************************)
(* Characters and keys.                                                    *)
(***************************************************************************)
LowerCs == <<"a","b","c","d","e","f","g","h","i","j","k","l","m",
             "n","o","p","q","r","s","t","u","v","w","x","y","z">>
UpperCs == <<"A","B","C","D","E","F","G","H","I","J","K","L","M",
             "N","O","P","Q","R","S","T","U","V","W","X","Y","Z">>

IsLower(c) == \E i \in 1..Len(LowerCs) : LowerCs[i] = c
IsUpper(c) == \E i \in 1..Len(UpperCs) : UpperCs[i] = c
IsCased(c) == IsLower(c) \/ IsUpper(c)
ToUpper(c) == IF IsLower(c) THEN UpperCs[CHOOSE i \in 1..Len(LowerCs) : LowerCs[i] = c] ELSE c
ToLower(c) == IF IsUpper(c) THEN LowerCs[CHOOSE i \in 1..Len(UpperCs) : UpperCs[i] = c] ELSE c

\* str.replace('_', ' ')
replace_underscore(s) == [i \in 1..Len(s) |-> IF s[i] = "_" THEN " " ELSE s[i]]

\* str.capitalize(): the first character upper-cased, the others lower-cased
capitalize(s) == [i \in 1..Len(s) |-> IF i = 1 THEN ToUpper(s[i]) ELSE ToLower(s[i])]

\* str.title(): a cased character is upper-cased after an uncased one (or at the
\* start) and lower-cased after a cased one.
title(s) == [i \in 1..Len(s) |->
               IF i = 1 \/ ~IsCased(s[i-1]) THEN ToUpper(s[i]) ELSE ToLower(s[i])]

k_analysis    == <<"a","n","a","l","y","s","i","s">>
k_score       == <<"s","c","o","r","e">>
k_explanation == <<"e","x","p","l","a","n","a","t","i","o","n">>
k_pulse_score == <<"p","u","l","s","e","_","s","c","o","r","e">>
k_pulseScore  == <<"p","u","l","s","e","S","c","o","r","e">>
k_actionable_suggestions ==
    <<"a","c","t","i","o","n","a","b","l","e","_","s","u","g","g","e","s","t","i","o","n","s">>
k_suggestions == <<"s","u","g","g","e","s","t","i","o","n","s">>

(***************************************************************************)
(* JSON values and the Python operations the translator applies to them.   *)
(***************************************************************************)
None     == [t |-> "null", v |-> 0]
Num(n)   == [t |-> "num", v |-> n]
Str(s)   == [t |-> "str", v |-> s]
Arr(s)   == [t |-> "arr", v |-> s]
Obj(kvs) == [t |-> "obj", v |-> kvs]

\* isinstance(x, dict)
IsDict(x) == x.t = "obj"

\* bool(x): None, 0, "", [] and {} are false
Truthy(x) ==
    CASE x.t = "null" -> FALSE
      [] x.t = "num"  -> x.v # 0
      [] x.t = "str"  -> x.v # ""
      [] OTHER        -> Len(x.v) > 0

\* key in d
HasKey(d, k) == \E i \in 1..Len(d.v) : d.v[i][1] = k

\* d.get(k)
Get(d, k) == IF HasKey(d, k) THEN d.v[CHOOSE i \in 1..Len(d.v) : d.v[i][1] = k][2] ELSE None

\* a or b
PyOr(a, b) == IF Truthy(a) THEN a ELSE b

\* What a call gives back: a value, or the exception it raised.
Return(x) == [ok |-> TRUE, error |-> "", value |-> x]
Raise(e)  == [ok |-> FALSE, error |-> e, value |-> None]

(***************************************************************************)
(* translate_response_for_frontend                                         *)
(***************************************************************************)
\* lines 219-226: the entry (key, value) as a frontend category
Category(key, value) ==
    [category    |-> title(replace_underscore(key)),
     score       |-> Get(value, k_score),
     explanation |-> Get(value, k_explanation)]

\* line 219: the test for "looks like a category score"
LooksLikeCategory(value) ==
    IsDict(value) /\ HasKey(value, k_score) /\ HasKey(value, k_explanation)

\* lines 214-226: the loop over analysis_data.items()
RECURSIVE scores_for_frontend(_)
scores_for_frontend(items) ==
    IF items = <<>> THEN <<>>
    ELSE LET key   == Head(items)[1]
             value == Head(items)[2]
         IN (IF LooksLikeCategory(value) THEN <<Category(key, value)>> ELSE <<>>)
            \o scores_for_frontend(Tail(items))

\* line 210-212: the payload is what the "analysis" key holds
FindAnalysis(result) == Get(result, k_analysis)

\* line 229 with the second key forgotten
FindPulseScoreSnakeOnly(analysis_data) == Get(analysis_data, k_pulse_score)

\* line 229
FindPulseScore(analysis_data) ==
    PyOr(Get(analysis_data, k_pulse_score), Get(analysis_data, k_pulseScore))

\* line 230 with the second key forgotten
FindSuggestionsActionableOnly(analysis_data) == Get(analysis_data, k_actionable_suggestions)

\* line 230
FindSuggestions(analysis_data) ==
    PyOr(Get(analysis_data, k_actionable_suggestions), Get(analysis_data, k_suggestions))

\* a / n rounded to the nearest integer, halves to the even one
RoundDiv(a, n) ==
    LET q == a \div n
        m == a % n
    IN IF 2 * m < n THEN q
       ELSE IF 2 * m > n THEN q + 1
       ELSE IF q % 2 = 0 THEN q ELSE q + 1

RECURSIVE SumScores(_)
SumScores(cats) == IF cats = <<>> THEN 0 ELSE Head(cats).score.v + SumScores(Tail(cats))

\* the mean of the category scores rounded to 1 decimal, in tenths
MeanScore(cats) == RoundDiv(SumScores(cats), Len(cats))

\* lines 232-239 with a missing aggregate replaced by the mean of the scores
BuildResponseMean(pulse_score, suggestions, scores) ==
    IF scores = <<>>
    THEN Raise("ValueError")
    ELSE Return([pulseScore  |-> IF Truthy(pulse_score) THEN pulse_score
                                 ELSE Num(MeanScore(scores)),
                 suggestions |-> suggestions,
                 scores      |-> scores])

\* lines 232-239: the check for essential data and the response built
BuildResponse(pulse_score, suggestions, scores) ==
    IF ~Truthy(pulse_score) \/ scores = <<>>
    THEN Raise("ValueError")
    ELSE Return([pulseScore  |-> pulse_score,
                 suggestions |-> suggestions,
                 scores      |-> scores])

\* lines 210-239 with gemini_result["analysis"] written for .get("analysis")
translate_subscript(result) ==
    IF ~IsDict(result) THEN Raise("TypeError")
    ELSE IF ~HasKey(result, k_analysis) THEN Raise("KeyError")
    ELSE LET analysis_data == FindAnalysis(result) IN
         IF ~Truthy(analysis_data) \/ ~IsDict(analysis_data)
         THEN Raise("ValueError")
         ELSE BuildResponse(FindPulseScore(analysis_data),
                            FindSuggestions(analysis_data),
                            scores_for_frontend(analysis_data.v))

translate_response_for_frontend(result) ==
    IF ~IsDict(result) THEN Raise("AttributeError")     \* no .get on a list or a scalar
    ELSE LET analysis_data == FindAnalysis(result) IN
         IF ~Truthy(analysis_data) \/ ~IsDict(analysis_data)
         THEN Raise("ValueError")
         ELSE BuildResponse(FindPulseScore(analysis_data),
                            FindSuggestions(analysis_data),
                            scores_for_frontend(analysis_data.v))

\* lines 235-242: the dict returned, as the JSON document the caller receives
k_scores   == <<"s","c","o","r","e","s">>
k_category == <<"c","a","t","e","g","o","r","y">>
CategoryJson(c) == Obj(<< <<k_category, [t |-> "str", v |-> c.category]>>,
                          <<k_score, c.score>>,
                          <<k_explanation, c.explanation>> >>)
CardJson(card) ==
    Obj(<< <<k_pulseScore, card.pulseScore>>,
           <<k_suggestions, card.suggestions>>,
           <<k_scores, Arr([i \in 1..Len(card.scores) |-> CategoryJson(card.scores[i])])>> >>)

(***************************************************************************)
(* NormSpec: the translator applied to a bounded set of parsed replies.    *)
(*                                                                         *)
(* A reply is built from up to MaxCats category entries (the i-th under    *)
(* the i-th key of CatKeys, with a score of ScoreVals), then at most one   *)
(* aggregate entry (a key of AggKeys, a value of AggVals), then at most    *)
(* one suggestions entry; the whole either at the top level or under       *)
(* "analysis". The example of the aggregate recomputation (scores 70, 80,  *)
(* 60, 90) is added to these.                                              *)
(***************************************************************************)
MaxCats == 4

k_Pulse_Score       == <<"P","u","l","s","e","_","S","c","o","r","e">>
k_pulse_space_score == <<"p","u","l","s","e"," ","s","c","o","r","e">>
k_PulseScore        == <<"P","u","l","s","e","S","c","o","r","e">>

CatKeys == << <<"R","h","y","t","h","m","_","G","r","o","o","v","e","_","Q","u","a","l","i","t","y">>,
             <<"S","o","u","n","d","_","P","r","o","d","u","c","t","i","o","n","_","Q","u","a","l","i","t","y">>,
             <<"M","a","r","k","e","t","_","P","o","t","e","n","t","i","a","l">>,
             <<"A","c","t","i","n","g","_","Q","u","a","l","i","t","y">>,
             <<"S","t","o","r","y","l","i","n","e","_","N","a","r","r","a","t","i","v","e">> >>

ScoreVals == {700, 800, 1500}
AggKeys   == {k_pulse_score, k_pulseScore, k_Pulse_Score, k_pulse_space_score, k_PulseScore}
AggVals   == {Num(750), Num(0)}
SuggKeys  == {k_actionable_suggestions, k_suggestions}
SuggVals  == {Str("improve mix")}

CatEntry(i, s) == <<CatKeys[i], Obj(<< <<k_score, Num(s)>>, <<k_explanation, Str("x")>> >>)>>

NumCats == IF MaxCats < Len(CatKeys) THEN MaxCats ELSE Len(CatKeys)

CatLists == UNION {{[i \in 1..n |-> CatEntry(i, ss[i])] : ss \in [1..n -> ScoreVals]} : n \in 0..NumCats}
AggLists  == {<<>>} \cup {<< <<k, a>> >> : k \in AggKeys, a \in AggVals}
SuggLists == {<<>>} \cup {<< <<k, a>> >> : k \in SuggKeys, a \in SuggVals}

\* The scores 70, 80, 60, 90 with no aggregate, and with the aggregate 75.0.
ExampleCats     == <<CatEntry(1, 700), CatEntry(2, 800), CatEntry(3, 600), CatEntry(4, 900)>>
ExamplePayloads == {Obj(ExampleCats),
                    Obj(ExampleCats \o << <<k_pulse_score, Num(750)>>,
                                          <<k_actionable_suggestions, Str("improve mix")>> >>)}

\* Two categories, then the aggregate entry agg and the suggestions entry sugg.
Variant(agg, sugg) == Obj(<<CatEntry(1, 800), CatEntry(2, 700)>> \o agg \o sugg)

\* Aggregates at and beyond the ends of [0,100], and one that is no number.
EdgeAggVals   == {Num(1000), Num(1300), Str("high")}
EdgeAggregate == {Variant(<< <<k, a>> >>, << <<k_suggestions, Str("improve mix")>> >>) :
                    k \in {k_pulse_score, k_pulseScore}, a \in EdgeAggVals}

\* Entries that are near to category entries: the two fields capitalized, a
\* key in lower case, a mapping with the score alone; and a suggestions entry
\* that is itself a mapping of a score and an explanation.
k_Score            == <<"S","c","o","r","e">>
k_Explanation      == <<"E","x","p","l","a","n","a","t","i","o","n">>
k_market_potential == <<"m","a","r","k","e","t","_","p","o","t","e","n","t","i","a","l">>
NearCategories ==
    {Obj(<<CatEntry(1, 800),
           <<CatKeys[2], Obj(<< <<k_Score, Num(700)>>, <<k_Explanation, Str("y")>> >>)>>,
           <<k_market_potential, Obj(<< <<k_score, Num(600)>>, <<k_explanation, Str("z")>> >>)>>,
           <<CatKeys[4], Obj(<< <<k_score, Num(900)>> >>)>>,
           <<k_pulse_score, Num(750)>>,
           <<k_suggestions, Str("improve mix")>> >>),
     Obj(<<CatEntry(1, 800),
           <<k_pulse_score, Num(800)>>,
           <<k_suggestions, Obj(<< <<k_score, Num(100)>>, <<k_explanation, Str("w")>> >>)>> >>)}

\* Suggestions under other spellings of the key, as a string or as a mapping
\* of sub-suggestions, and under both keys of line 230 at once.
k_Suggestions            == <<"S","u","g","g","e","s","t","i","o","n","s">>
k_Actionable_Suggestions == <<"A","c","t","i","o","n","a","b","l","e"," ","S","u","g","g","e","s","t","i","o","n","s">>
k_mix                    == <<"m","i","x">>
SubSuggestions == Obj(<< <<k_mix, Str("more low end")>> >>)
SuggVariants ==
    {Variant(<< <<k_pulse_score, Num(750)>> >>, << <<k, a>> >>) :
        k \in SuggKeys \cup {k_Suggestions, k_Actionable_Suggestions},
        a \in SuggVals \cup {SubSuggestions}}
    \cup {Variant(<< <<k_pulse_score, Num(750)>> >>,
                  << <<k_actionable_suggestions, a>>, <<k_suggestions, Str("tighten the mix")>> >>) :
             a \in {Str(""), Str("improve mix")}}
    \cup {Variant(<< <<k_pulse_score, Num(750)>> >>, << <<k_actionable_suggestions, Str("")>> >>)}

Payloads == {Obj(cs \o ag \o sg) : cs \in CatLists, ag \in AggLists, sg \in SuggLists}
            \cup ExamplePayloads \cup EdgeAggregate \cup NearCategories \cup SuggVariants
Wrap(p)  == Obj(<< <<k_analysis, p>> >>)

\* What json.loads gives when the text is JSON but no object.
NonObjects == {None, Num(750), Str("ok"), Arr(<<>>), Arr(<<Variant(<<>>, <<>>)>>)}

Replies  == Payloads \cup {Wrap(p) : p \in Payloads} \cup NonObjects
            \cup {Wrap(x) : x \in NonObjects}

NotCalled == [ok |-> FALSE, error |-> "not called", value |-> None]

(***************************************************************************)
(* Spec: the /analyze endpoint.                                            *)
(*                                                                         *)
(* analyze_media is a coroutine run by one event loop: its only suspension *)
(* point is the await of line 46. From there to its end the handler is     *)
(* synchronous code (time.sleep included) and holds the loop: no other     *)
(* request moves meanwhile. `running` is that request.                     *)
(***************************************************************************)
Reqs      == {"r1", "r2"}
NoReq     == "none"
Seconds   == {1, 2}                       \* values of int(time.time())
Filenames == {"track"}                    \* values of audioFile.filename
MimeTypes == {<<"a","u","d","i","o","/","m","p","e","g">>,
              <<"v","i","d","e","o","/","m","p","4">>,
              <<"i","m","a","g","e","/","p","n","g">>}
p_audio   == <<"a","u","d","i","o","/">>
p_video   == <<"v","i","d","e","o","/">>

\* the values of file.state.name
RemoteStates == {"PROCESSING", "ACTIVE", "FAILED", "STATE_UNSPECIFIED"}

\* str.startswith
startswith(s, prefix) ==
    Len(s) >= Len(prefix) /\ \A i \in 1..Len(prefix) : s[i] = prefix[i]

\* line 44: f"temp_{int(time.time())}_{audioFile.filename}"
temp_filename(sec, filename) == <<"temp", sec, filename>>
Paths   == {temp_filename(sec, f) : sec \in Seconds, f \in Filenames}
Path(r) == temp_filename(req[r].sec, req[r].filename)

\* What json.loads(cleaned_text) gives for the replies the service may send.
SamplePayload == Obj(<<CatEntry(1, 800), CatEntry(2, 700),
                       <<k_pulse_score, Num(750)>>,
                       <<k_suggestions, Str("improve mix")>> >>)
NoAggPayload  == Obj(<<CatEntry(1, 800), CatEntry(2, 700),
                       <<k_suggestions, Str("improve mix")>> >>)
ServiceReplies == {Return(Wrap(SamplePayload)),    \* the shape of the video prompt
                   Return(SamplePayload),          \* the shape of the audio prompt
                   Return(Wrap(NoAggPayload)),
                   Raise("JSONDecodeError")}

NoFile   == [exists |-> FALSE, content |-> NoReq]
NoInput  == [sec |-> 0, filename |-> "", mime |-> <<>>]
NoHist   == [created |-> FALSE, calls |-> {}, generates |-> 0, uploaded |-> FALSE,
             cause |-> "", missing |-> FALSE, foreign |-> FALSE]

Init ==
    /\ pc = [r \in Reqs |-> "idle"]
    /\ running = NoReq
    /\ req = [r \in Reqs |-> NoInput]
    /\ fs = [n \in Paths |-> NoFile]
    /\ linked = [r \in Reqs |-> FALSE]
    /\ remote = {}
    /\ state = [r \in Reqs |-> "none"]
    /\ reply = [r \in Reqs |-> NotCalled]
    /\ pending = [r \in Reqs |-> NotCalled]
    /\ outcome = [r \in Reqs |-> NotCalled]
    /\ hist = [r \in Reqs |-> NoHist]
    /\ gemini_result = None
    /\ final_response = NotCalled

\* An exception e leaves the code of r at position `at`.
Throw(r, e, at) ==
    /\ pending' = [pending EXCEPT ![r] = Raise(e)]
    /\ pc' = [pc EXCEPT ![r] = at]

\* lines 43-46, up to the await: the name is made and the file opened for
\* writing, which creates it or truncates the file already at that path.
Receive(r) ==
    /\ pc[r] = "idle" /\ running = NoReq
    /\ \E sec \in Seconds, f \in Filenames, m \in MimeTypes :
         LET n == temp_filename(sec, f) IN
         /\ req' = [req EXCEPT ![r] = [sec |-> sec, filename |-> f, mime |-> m]]
         /\ fs' = [fs EXCEPT ![n] = [exists |-> TRUE, content |-> NoReq]]
         /\ hist' = [hist EXCEPT ![r].created = TRUE]
    /\ linked' = [linked EXCEPT ![r] = TRUE]
    /\ pc' = [pc EXCEPT ![r] = "reading"]
    /\ UNCHANGED <<running, remote, state, reply, pending, outcome, normVars>>

\* line 46, from the await on: the body read is written through the handle r
\* opened and the file closed; or the read raises, outside the try statement,
\* and the request ends there.
ReadBody(r) ==
    /\ pc[r] = "reading" /\ running = NoReq
    /\ \/ /\ fs' = IF linked[r] THEN [fs EXCEPT ![Path(r)].content = r] ELSE fs
          /\ running' = r
          /\ pc' = [pc EXCEPT ![r] = "dispatch"]
          /\ UNCHANGED <<pending, outcome, hist>>
       \/ /\ Throw(r, "ReadError", "done")
          /\ outcome' = [outcome EXCEPT ![r] = Raise("ReadError")]
          /\ hist' = [hist EXCEPT ![r].cause = "ReadError"]
          /\ UNCHANGED <<fs, running>>
    /\ UNCHANGED <<req, linked, remote, state, reply, normVars>>

\* lines 49-57 with every type that is not audio taken for video
DispatchElseVideo(r) ==
    /\ pc[r] = "dispatch" /\ running = r
    /\ pc' = [pc EXCEPT ![r] = "upload"]
    /\ UNCHANGED <<running, req, fs, linked, remote, state, reply, pending, outcome, hist,
                   normVars>>

\* lines 49-57
Dispatch(r) ==
    /\ pc[r] = "dispatch" /\ running = r
    /\ IF startswith(req[r].mime, p_audio) \/ startswith(req[r].mime, p_video)
       THEN /\ pc' = [pc EXCEPT ![r] = "upload"]
            /\ UNCHANGED <<pending, hist>>
       ELSE /\ Throw(r, "HTTPException(400)", "except")
            /\ hist' = [hist EXCEPT ![r].cause = "HTTPException(400)"]
    /\ UNCHANGED <<running, req, fs, linked, remote, state, reply, outcome, normVars>>

\* lines 71 and 167: genai.upload_file(path=filename)
Upload(r) ==
    /\ pc[r] = "upload" /\ running = r
    /\ IF ~fs[Path(r)].exists
       THEN /\ Throw(r, "FileNotFoundError", "except")
            /\ hist' = [hist EXCEPT ![r].cause = "FileNotFoundError", ![r].missing = TRUE]
            /\ UNCHANGED <<remote, state>>
       ELSE \/ /\ remote' = remote \cup {r}
               /\ \E s \in RemoteStates : state' = [state EXCEPT ![r] = s]
               /\ hist' = [hist EXCEPT ![r].calls = @ \cup {"upload"}, ![r].uploaded = TRUE,
                                       ![r].foreign = @ \/ fs[Path(r)].content # r]
               /\ pc' = [pc EXCEPT ![r] = "while"]
               /\ UNCHANGED pending
            \/ /\ Throw(r, "ServiceError", "except")
               /\ hist' = [hist EXCEPT ![r].calls = @ \cup {"upload"}, ![r].cause = "ServiceError"]
               /\ UNCHANGED <<remote, state>>
    /\ UNCHANGED <<running, req, fs, linked, reply, outcome, normVars>>

\* lines 72 and 168: the test of the while loop
While(r) ==
    /\ pc[r] = "while" /\ running = r
    /\ pc' = [pc EXCEPT ![r] = IF state[r] = "PROCESSING" THEN "get_file" ELSE "if_failed"]
    /\ UNCHANGED <<running, req, fs, linked, remote, state, reply, pending, outcome, hist,
                   normVars>>

\* lines 73-75 and 169-171: the body of the loop, time.sleep then genai.get_file
GetFile(r) ==
    /\ pc[r] = "get_file" /\ running = r
    /\ \/ /\ \E s \in RemoteStates : state' = [state EXCEPT ![r] = s]
          /\ hist' = [hist EXCEPT ![r].calls = @ \cup {"get_file"}]
          /\ pc' = [pc EXCEPT ![r] = "while"]
          /\ UNCHANGED pending
       \/ /\ Throw(r, "ServiceError", "except")
          /\ hist' = [hist EXCEPT ![r].calls = @ \cup {"get_file"}, ![r].cause = "ServiceError"]
          /\ UNCHANGED state
    /\ UNCHANGED <<running, req, fs, linked, remote, reply, outcome, normVars>>

\* lines 76-77 and 172-173
IfFailed(r) ==
    /\ pc[r] = "if_failed" /\ running = r
    /\ IF state[r] = "FAILED"
       THEN /\ Throw(r, "ValueError", "except")
            /\ hist' = [hist EXCEPT ![r].cause = "ValueError"]
       ELSE /\ pc' = [pc EXCEPT ![r] = "generate"]
            /\ UNCHANGED <<pending, hist>>
    /\ UNCHANGED <<running, req, fs, linked, remote, state, reply, outcome, normVars>>

\* lines 152 and 193: model.generate_content([prompt, file])
Generate(r) ==
    /\ pc[r] = "generate" /\ running = r
    /\ \/ /\ \E x \in ServiceReplies : reply' = [reply EXCEPT ![r] = x]
          /\ hist' = [hist EXCEPT ![r].calls = @ \cup {"generate"}, ![r].generates = @ + 1]
          /\ pc' = [pc EXCEPT ![r] = "delete"]
          /\ UNCHANGED pending
       \/ /\ Throw(r, "ServiceError", "except")
          /\ hist' = [hist EXCEPT ![r].calls = @ \cup {"generate"}, ![r].generates = @ + 1,
                                  ![r].cause = "ServiceError"]
          /\ UNCHANGED reply
    /\ UNCHANGED <<running, req, fs, linked, remote, state, outcome, normVars>>

\* lines 153 and 194: genai.delete_file(file.name)
DeleteFile(r) ==
    /\ pc[r] = "delete" /\ running = r
    /\ \/ /\ remote' = remote \ {r}
          /\ hist' = [hist EXCEPT ![r].calls = @ \cup {"delete"}]
          /\ pc' = [pc EXCEPT ![r] = "parse"]
          /\ UNCHANGED pending
       \/ /\ Throw(r, "ServiceError", "except")
          /\ hist' = [hist EXCEPT ![r].calls = @ \cup {"delete"}, ![r].cause = "ServiceError"]
          /\ UNCHANGED remote
    /\ UNCHANGED <<running, req, fs, linked, state, reply, outcome, normVars>>

\* lines 157-160 and 197-200 with the generation tried again when the reply
\* cannot be used
ParseRetry(r) ==
    /\ pc[r] = "parse" /\ running = r
    /\ LET result == IF reply[r].ok THEN translate_response_for_frontend(reply[r].value)
                     ELSE reply[r]
       IN /\ pending' = [pending EXCEPT ![r] = result]
          /\ pc' = [pc EXCEPT ![r] = IF result.ok THEN "finally" ELSE "generate"]
          /\ hist' = [hist EXCEPT ![r].cause = result.error]
    /\ UNCHANGED <<running, req, fs, linked, remote, state, reply, outcome, normVars>>

\* lines 157-160 and 197-200: json.loads, then the translator, whose value is
\* returned through the finally clause
Parse(r) ==
    /\ pc[r] = "parse" /\ running = r
    /\ LET result == IF reply[r].ok THEN translate_response_for_frontend(reply[r].value)
                     ELSE reply[r]
       IN /\ pending' = [pending EXCEPT ![r] = result]
          /\ pc' = [pc EXCEPT ![r] = IF result.ok THEN "finally" ELSE "except"]
          /\ hist' = [hist EXCEPT ![r].cause = result.error]
    /\ UNCHANGED <<running, req, fs, linked, remote, state, reply, outcome, normVars>>

\* lines 59-62 with the handler returning an empty result for raising
ExceptSwallow(r) ==
    /\ pc[r] = "except" /\ running = r
    /\ pending' = [pending EXCEPT ![r] = Return(None)]
    /\ pc' = [pc EXCEPT ![r] = "finally"]
    /\ UNCHANGED <<running, req, fs, linked, remote, state, reply, outcome, hist, normVars>>

\* lines 59-62: every Exception, the HTTPException of line 57 too, is raised
\* again as HTTPException(500)
Except(r) ==
    /\ pc[r] = "except" /\ running = r
    /\ Throw(r, "HTTPException(500)", "finally")
    /\ UNCHANGED <<running, req, fs, linked, remote, state, reply, outcome, hist, normVars>>

\* lines 63-65: the file at the path is removed if there is one, and the
\* request ends with the value returned or the exception raised
Finally(r) ==
    /\ pc[r] = "finally" /\ running = r
    /\ IF fs[Path(r)].exists
       THEN /\ fs' = [fs EXCEPT ![Path(r)] = NoFile]
            /\ linked' = [o \in Reqs |-> linked[o] /\ Path(o) # Path(r)]
            /\ hist' = [hist EXCEPT ![r].foreign =
                          @ \/ \E o \in Reqs \ {r} :
                                 linked[o] /\ Path(o) = Path(r) /\ pc[o] # "done"]
       ELSE UNCHANGED <<fs, linked, hist>>
    /\ outcome' = [outcome EXCEPT ![r] = pending[r]]
    /\ pc' = [pc EXCEPT ![r] = "done"]
    /\ running' = NoReq
    /\ UNCHANGED <<req, remote, state, reply, pending, normVars>>

Next ==
    \E r \in Reqs :
        \/ Receive(r)
        \/ ReadBody(r)
        \/ Dispatch(r)
        \/ Upload(r)
        \/ While(r)
        \/ GetFile(r)
        \/ IfFailed(r)
        \/ Generate(r)
        \/ DeleteFile(r)
        \/ Parse(r)
        \/ Except(r)
        \/ Finally(r)

Spec == Init /\ [][Next]_vars

\* The steps of a received request are taken by the event loop as long as it
\* can take them; nothing is assumed of the arrival of requests or of what
\* the remote service answers.
Step(r) ==
    \/ ReadBody(r) \/ Dispatch(r) \/ Upload(r) \/ While(r) \/ GetFile(r) \/ IfFailed(r)
    \/ Generate(r) \/ DeleteFile(r) \/ Parse(r) \/ Except(r) \/ Finally(r)

FairSpec == Spec /\ \A r \in Reqs : WF_vars(Step(r))

(***************************************************************************)
(* NormSpec                                                                *)
(***************************************************************************)
NormInit ==
    /\ pc = [r \in Reqs |-> "idle"]
    /\ running = NoReq
    /\ req = [r \in Reqs |-> NoInput]
    /\ fs = [n \in Paths |-> NoFile]
    /\ linked = [r \in Reqs |-> FALSE]
    /\ remote = {}
    /\ state = [r \in Reqs |-> "none"]
    /\ reply = [r \in Reqs |-> NotCalled]
    /\ pending = [r \in Reqs |-> NotCalled]
    /\ outcome = [r \in Reqs |-> NotCalled]
    /\ hist = [r \in Reqs |-> NoHist]
    /\ gemini_result \in Replies
    /\ final_response = NotCalled

Translate ==
    /\ final_response = NotCalled
    /\ final_response' = translate_response_for_frontend(gemini_result)
    /\ UNCHANGED <<gemini_result, pipeVars>>

\* The translator applied to the ScoreCard it returned.
TranslateAgain ==
    /\ final_response.ok
    /\ LET card == CardJson(final_response.value)
       IN /\ gemini_result' = card
          /\ final_response' = translate_response_for_frontend(card)
    /\ UNCHANGED pipeVars

NormNext == Translate \/ TranslateAgain

NormSpec == NormInit /\ [][NormNext]_vars

(***************************************************************************)
(* Properties of the endpoint (Spec, FairSpec).                            *)
(***************************************************************************)
Supported(m) == startswith(m, p_audio) \/ startswith(m, p_video)
Ended(r)     == pc[r] = "done"

\* C1: a request whose upload succeeded has no remote file left when it ends,
\* whatever the way it ends.
C1_RemoteFileDeleted ==
    \A r \in Reqs : (Ended(r) /\ hist[r].uploaded) => r \notin remote

\* C2: a request that entered the polling loop ends, whatever the remote
\* status does.
C2_PollingEnds ==
    \A r \in Reqs : (pc[r] = "while") ~> Ended(r)

\* C6 as stated: a request of unsupported type makes no remote call and
\* creates no temporary file.
C6_RejectedBeforeAnyResource ==
    \A r \in Reqs : (pc[r] # "idle" /\ ~Supported(req[r].mime)) =>
        (hist[r].calls = {} /\ ~hist[r].created)

\* C6 as amended: a request of unsupported type makes no remote call and ends
\* with an error; its temporary file was created before the type was looked at.
C6_RejectedBeforeRemoteCall ==
    \A r \in Reqs : (pc[r] # "idle" /\ ~Supported(req[r].mime)) =>
        /\ hist[r].calls = {}
        /\ hist[r].created
        /\ r \notin remote
        /\ Ended(r) => ~outcome[r].ok

C6_Witness ==
    \E r \in Reqs : Ended(r) /\ ~Supported(req[r].mime)
                    /\ hist[r].cause = "HTTPException(400)" /\ hist[r].calls = {}

\* C7: no request calls generate_content twice, a request that ends with a
\* ScoreCard called it once, and a request of unsupported type never calls it.
C7_OneGeneratePerRequest ==
    \A r \in Reqs :
        /\ hist[r].generates <= 1
        /\ (Ended(r) /\ outcome[r].ok) => hist[r].generates = 1
        /\ (pc[r] # "idle" /\ ~Supported(req[r].mime)) => hist[r].generates = 0

C7_Witness ==
    \E r \in Reqs : Ended(r) /\ outcome[r].ok /\ hist[r].generates = 1

\* C8: the file a request opened is no longer at its path when the request
\* has ended.
C8_TempFileGone ==
    \A r \in Reqs : Ended(r) => ~linked[r]

\* C9: no request truncates, reads or removes the file of another request
\* that has not ended, and none finds its own file missing (which a request
\* alone never does).
C9_Independent ==
    \A r \in Reqs : ~hist[r].foreign /\ ~hist[r].missing

(***************************************************************************)
(* Properties of the translator (NormSpec).                                *)
(***************************************************************************)
Called == final_response # NotCalled

\* The payload as the specification locates it: what "analysis" holds when
\* that is a mapping, the top level otherwise.
PayloadOf(g) ==
    IF IsDict(g) /\ HasKey(g, k_analysis) /\ IsDict(Get(g, k_analysis))
    THEN Get(g, k_analysis) ELSE g

HasAggregateKey(p) == \E k \in AggKeys : HasKey(p, k)
AggKeyOf(p)        == CHOOSE k \in AggKeys : HasKey(p, k)

\* the reply with its aggregate key spelled k
RespellItems(items, k) ==
    [i \in 1..Len(items) |-> IF items[i][1] \in AggKeys THEN <<k, items[i][2]>> ELSE items[i]]
Respell(g, k) ==
    IF HasKey(g, k_analysis) /\ IsDict(Get(g, k_analysis))
    THEN Wrap(Obj(RespellItems(Get(g, k_analysis).v, k)))
    ELSE Obj(RespellItems(g.v, k))

\* C3: a reply without wrapper is translated to what the same payload under
\* "analysis" is translated to.
C3_NoWrapperSameAsWrapped ==
    (Called /\ IsDict(gemini_result) /\ ~HasKey(gemini_result, k_analysis)) =>
        final_response = translate_response_for_frontend(Wrap(gemini_result))

C5_ScoresInRange ==
    (Called /\ final_response.ok) =>
        \A i \in 1..Len(final_response.value.scores) :
            LET sc == final_response.value.scores[i].score
            IN sc.t = "num" /\ sc.v >= 0 /\ sc.v <= 1000

CategoriesOf(g) ==
    IF IsDict(PayloadOf(g)) THEN scores_for_frontend(PayloadOf(g).v) ELSE <<>>

\* C11: whatever JSON value the reply is, a payload without category entries
\* makes the translator raise its ValueError, and no ScoreCard returned has an
\* empty scores list.
C11_TotalOnParsedReplies ==
    Called =>
        /\ CategoriesOf(gemini_result) = <<>> => final_response = Raise("ValueError")
        /\ final_response.ok => final_response.value.scores # <<>>

\* a number of [0,100]
InRange(x) == x.t = "num" /\ x.v >= 0 /\ x.v <= 1000

\* C12: an aggregate the translator finds (under "analysis", spelled
\* "pulse_score" or "pulseScore", beside a category) is the pulseScore of the
\* ScoreCard returned exactly when it is a number of [0,100], 0 and 100 included,
\* and every pulseScore returned is such a number.
C12_AggregateValidated ==
    Called =>
        /\ final_response.ok => InRange(final_response.value.pulseScore)
        /\ LET p == PayloadOf(gemini_result) IN
           (/\ IsDict(gemini_result) /\ HasKey(gemini_result, k_analysis) /\ IsDict(p)
            /\ CategoriesOf(gemini_result) # <<>>
            /\ HasAggregateKey(p) /\ AggKeyOf(p) \in {k_pulse_score, k_pulseScore}) =>
               LET a    == Get(p, AggKeyOf(p))
                   used == final_response.ok /\ final_response.value.pulseScore = a
               IN IF InRange(a) THEN used ELSE ~used

\* the canonical shape: pulseScore, suggestions and the scores list
IsCard(g) ==
    /\ IsDict(g) /\ Len(g.v) = 3
    /\ g.v[1][1] = k_pulseScore /\ g.v[2][1] = k_suggestions /\ g.v[3][1] = k_scores
    /\ g.v[3][2].t = "arr"

\* C13 as stated: the translator applied to a ScoreCard it returned returns
\* that ScoreCard.
C13_Idempotent ==
    (Called /\ IsCard(gemini_result)) =>
        (final_response.ok /\ CardJson(final_response.value) = gemini_result)

\* C13 as amended: the translator applied to a ScoreCard it returned raises
\* ValueError.
C13_CanonicalRejected ==
    (Called /\ IsCard(gemini_result)) => final_response = Raise("ValueError")

C13_Witness ==
    /\ IsCard(gemini_result)
    /\ Len(gemini_result.v[3][2].v) = 2
    /\ final_response = Raise("ValueError")

(***************************************************************************)
(* More properties of the endpoint (Spec).                                 *)
(***************************************************************************)
\* C14: once a stage of a request has failed, the request makes no further
\* remote call, is in its handler, its cleanup or ended, and ends with an
\* error, never with a ScoreCard.
C14_FailureAborts ==
    [][\A r \in Reqs :
          /\ hist'[r].cause # "" =>
                /\ pc'[r] \in {"except", "finally", "done"}
                /\ pc'[r] = "done" => ~outcome'[r].ok
          /\ hist[r].cause # "" =>
                /\ hist'[r].calls = hist[r].calls
                /\ hist'[r].generates = hist[r].generates
                /\ hist'[r].cause = hist[r].cause]_vars

C14_Witness ==
    \E r \in Reqs : /\ Ended(r) /\ hist[r].cause = "JSONDecodeError"
                    /\ "delete" \in hist[r].calls /\ ~outcome[r].ok

\* C15: generate_content is called only after an upload and with ACTIVE as the
\* last state seen of the remote file, and delete_file only after it.
C15_GenerateOnlyWhenReady ==
    \A r \in Reqs :
        /\ "generate" \in hist[r].calls => (state[r] = "ACTIVE" /\ "upload" \in hist[r].calls)
        /\ "get_file" \in hist[r].calls => "upload" \in hist[r].calls
        /\ "delete" \in hist[r].calls => "generate" \in hist[r].calls

\* C17: a request of unsupported type ends with the HTTPException of status 400
\* that the dispatch raised.
C17_UnsupportedIs400 ==
    \A r \in Reqs :
        (Ended(r) /\ hist[r].cause = "HTTPException(400)") =>
            outcome[r] = Raise("HTTPException(400)")

(***************************************************************************)
(* More properties of the translator (NormSpec).                           *)
(***************************************************************************)
\* a key in lower case and without separators
Squash(k) == SelectSeq([i \in 1..Len(k) |-> ToLower(k[i])], LAMBDA c : c \notin {"_", " "})

\* the fields of the mapping v whose key is k, or is k but for case and separators
ExactFields(v, k) == {i \in 1..Len(v.v) : v.v[i][1] = k}
LooseFields(v, k) == {i \in 1..Len(v.v) : Squash(v.v[i][1]) = Squash(k)}

\* the indices, in increasing order, of the entries of the payload p that are
\* mappings with a score field and an explanation field
ExactShaped(p) ==
    SelectSeq([i \in 1..Len(p.v) |-> i],
              LAMBDA i : /\ p.v[i][2].t = "obj"
                         /\ ExactFields(p.v[i][2], k_score) # {}
                         /\ ExactFields(p.v[i][2], k_explanation) # {})
LooseShaped(p) ==
    SelectSeq([i \in 1..Len(p.v) |-> i],
              LAMBDA i : /\ p.v[i][2].t = "obj"
                         /\ LooseFields(p.v[i][2], k_score) # {}
                         /\ LooseFields(p.v[i][2], k_explanation) # {})

\* name is key with underscores turned into spaces and title-cased
IsDisplayName(name, key) ==
    /\ Len(name) = Len(key)
    /\ \A i \in 1..Len(key) :
          IF key[i] = "_" THEN name[i] = " "
          ELSE IF ~IsCased(key[i]) THEN name[i] = key[i]
          ELSE /\ ToLower(name[i]) = ToLower(key[i])
               /\ IsUpper(name[i]) <=> (i = 1 \/ ~IsCased(key[i-1]))

\* the categories sc are the entries idx of the payload p, in that order
HoldsEntries(sc, p, idx, Fields(_, _)) ==
    /\ Len(sc) = Len(idx)
    /\ \A j \in 1..Len(idx) :
          LET key   == p.v[idx[j]][1]
              value == p.v[idx[j]][2]
          IN /\ IsDisplayName(sc[j].category, key)
             /\ \E f \in Fields(value, k_score) : sc[j].score = value.v[f][2]
             /\ \E f \in Fields(value, k_explanation) : sc[j].explanation = value.v[f][2]

\* C16 as stated: the scores of a ScoreCard returned are the entries of the
\* payload that are mappings with a score and an explanation field, the field
\* names compared without case and separators.
C16_LooseFieldNames ==
    (Called /\ final_response.ok) =>
        HoldsEntries(final_response.value.scores, PayloadOf(gemini_result),
                     LooseShaped(PayloadOf(gemini_result)), LooseFields)

\* C16 as amended: the scores of a ScoreCard returned are the entries of the
\* payload that are mappings with the keys "score" and "explanation" spelled
\* so, in payload order, each named by its key with underscores turned into
\* spaces and title-cased.
C16_ExactFieldNames ==
    (Called /\ final_response.ok) =>
        HoldsEntries(final_response.value.scores, PayloadOf(gemini_result),
                     ExactShaped(PayloadOf(gemini_result)), ExactFields)

C16_Witness ==
    /\ IsDict(gemini_result) /\ HasKey(gemini_result, k_analysis)
    /\ HasKey(PayloadOf(gemini_result), k_market_potential)
    /\ final_response.ok
    /\ Len(final_response.value.scores) = 2
    /\ final_response.value.scores[2].category =
          <<"M","a","r","k","e","t"," ","P","o","t","e","n","t","i","a","l">>

\* the value the payload p holds under the key k, None without that key
ValueUnder(p, k) ==
    IF ExactFields(p, k) = {} THEN None ELSE p.v[CHOOSE i \in ExactFields(p, k) : TRUE][2]

\* the entries of the payload p whose key is "suggestions" or "actionable
\* suggestions" but for case and separators, and whose value is not null
SuggestionEntries(p) ==
    {i \in LooseFields(p, k_suggestions) \cup LooseFields(p, k_actionable_suggestions) :
        p.v[i][2] # None}

====
